---- MODULE Spec2Model ----
(***************************************************************************)
(* A model of mudsnake_lib/protocols/telnet.py (class MudTelnetProtocol).  *)
(*                                                                         *)
(* Text is a sequence of one-character strings, a sub-negotiation payload  *)
(* is the list of single bytes the Telnet engine hands to a handler, and   *)
(* everything written to a transport is a sequence of byte values.         *)
(* The methods the class calls on itself and takes from the Telnet engine  *)
(* it imports (will, do, requestNegotiation, _write, the WILL/DO/WONT/DONT *)
(* state machine) are modelled at their call sites.  The state after       *)
(* construction is the one the assignments of __init__ produce;            *)
(* handshake_done, which the class calls but does not define, is the       *)
(* notification to the command dispatcher and returns.                     *)
(* Inbound, the engine's byte parser (escape, command, sub-negotiation and *)
(* carriage-return states) is modelled at super().dataReceived; a byte b   *)
(* of the peer's compressed stream is the value Z0 + b after a two-byte    *)
(* stream header.  Every LoopingCall the session makes is kept with its    *)
(* running flag, so that timers left running are visible.                  *)
(***************************************************************************)
EXTENDS Integers, Sequences, FiniteSets, TLC

VARIABLES
    protocol_flags,   \* session -> the protocol_flags dictionary
    ttype_step,       \* session -> the TTYPE step counter
    transport,        \* session -> the sequence of writes made to the transport
    optstate,         \* session -> option code -> negotiation state kept by the engine
    nop_keep_alive,   \* session -> the LoopingCalls made (running or not) and the current one
    tcp_keepalive,    \* session -> transport.setTcpKeepAlive was switched on
    connected,        \* session -> connectionMade has run
    zlib_compress,    \* ZLIB_COMPRESS, the one compressor object of the module
    handshakes,       \* session -> number of handshake_done() notifications
    raised,           \* session -> exception that escaped the last call ("" if none)
    last,             \* session -> the last call made on the session (history)
    delivered,        \* session -> number of terminal-type payloads delivered (history)
    refused,          \* session -> options whose WILL request the peer refused (history)
    sent,             \* session -> the messages sent through sendText/sendPrompt (history)
    closed,           \* session -> the connection was lost
    game_data_buffer, \* session -> the bytes of the line not yet complete
    inputfuncs_buffer,\* session -> the commands of the text events queued, in order
    telnet,           \* session -> the engine's parser: state, command, commands
    zlib_decompress,  \* ZLIB_DECOMPRESS, the one decompressor object of the module
    received          \* session -> bytes read and application data delivered (history)

vars == <<protocol_flags, ttype_step, transport, optstate, nop_keep_alive,
          tcp_keepalive, connected, zlib_compress, handshakes, raised, last,
          delivered, refused, sent, closed, game_data_buffer, inputfuncs_buffer,
          telnet, zlib_decompress, received>>

Sessions == {"a", "b"}

----------------------------------------------------------------------------
(* Telnet bytes (twisted.conch.telnet) and the option codes of the module. *)

IAC == 255
DONT == 254
DO == 253
WONT == 252
WILL == 251
SB == 250
GA == 249
NOP == 241
SE == 240
SGA == 3
NAWS == 31
LINEMODE == 34
MSSP == 70
MCCP1 == 85
MCCP2 == 86
MCCP3 == 87
MXP == 91
MSDP == 69
GMCP == 201
TTYPE == 24
SEND == 1
IS == "NUL"

----------------------------------------------------------------------------
(* Text helpers: str methods used by the handlers.                         *)

Lowercase == <<"a","b","c","d","e","f","g","h","i","j","k","l","m",
               "n","o","p","q","r","s","t","u","v","w","x","y","z">>
Uppercase == <<"A","B","C","D","E","F","G","H","I","J","K","L","M",
               "N","O","P","Q","R","S","T","U","V","W","X","Y","Z">>
Digits == <<"0","1","2","3","4","5","6","7","8","9">>

\* the characters of the model in code-point order
CodePoints == <<"NUL", " ", "+", "-", ".">> \o Digits \o Uppercase \o Lowercase

Ord(c) == CHOOSE i \in 1..Len(CodePoints) : CodePoints[i] = c

UpperChar(c) ==
    IF \E i \in 1..26 : Lowercase[i] = c
    THEN Uppercase[CHOOSE i \in 1..26 : Lowercase[i] = c]
    ELSE c

upper(t) == [i \in 1..Len(t) |-> UpperChar(t[i])]

startswith(t, p) == Len(t) >= Len(p) /\ SubSeq(t, 1, Len(p)) = p

endswith(t, p) == Len(t) >= Len(p) /\ SubSeq(t, Len(t) - Len(p) + 1, Len(t)) = p

RECURSIVE lstrip(_, _)
lstrip(t, c) == IF t # <<>> /\ Head(t) = c THEN lstrip(Tail(t), c) ELSE t

RECURSIVE rstrip(_, _)
rstrip(t, c) ==
    IF t # <<>> /\ t[Len(t)] = c THEN rstrip(SubSeq(t, 1, Len(t) - 1), c) ELSE t

strip(t) == rstrip(lstrip(t, " "), " ")

\* str >= str: lexicographic on code points
RECURSIVE StrGE(_, _)
StrGE(a, b) ==
    IF b = <<>> THEN TRUE
    ELSE IF a = <<>> THEN FALSE
    ELSE IF Ord(Head(a)) # Ord(Head(b)) THEN Ord(Head(a)) > Ord(Head(b))
    ELSE StrGE(Tail(a), Tail(b))

isdigit(t) == t # <<>> /\ \A i \in 1..Len(t) : \E d \in 1..10 : Digits[d] = t[i]

DigitVal(c) == (CHOOSE d \in 1..10 : Digits[d] = c) - 1

RECURSIVE int(_)
int(t) == IF t = <<>> THEN 0 ELSE 10 * int(SubSeq(t, 1, Len(t) - 1)) + DigitVal(t[Len(t)])

\* the dictionary key / stored value of a text
RECURSIVE Str(_)
Str(t) == IF t = <<>> THEN "" ELSE Head(t) \o Str(Tail(t))

\* decimal text of a number, as a client writes it
RECURSIVE Decimal(_)
Decimal(n) == IF n < 10 THEN <<Digits[n + 1]>> ELSE Decimal(n \div 10) \o <<Digits[(n % 10) + 1]>>


----------------------------------------------------------------------------
(* Texts the handlers compare against.                                     *)

tMUDLET == <<"M", "U", "D", "L", "E", "T">>
tTINTIN == <<"T", "I", "N", "T", "I", "N", "+", "+">>
tXTERM == <<"X", "T", "E", "R", "M">>
t256COLOR == <<"-", "2", "5", "6", "C", "O", "L", "O", "R">>
tCOLOR == <<"-", "C", "O", "L", "O", "R">>
tMTTS == <<"M", "T", "T", "S">>
tMinMudlet == <<"1", ".", "1">>
tUNKNOWN == <<"U", "N", "K", "N", "O", "W", "N">>

KnownXterm256Clients ==
    { <<"A", "T", "L", "A", "N", "T", "I", "S">>,
      <<"C", "M", "U", "D">>,
      <<"K", "I", "L", "D", "C", "L", "I", "E", "N", "T">>,
      tMUDLET,
      <<"M", "U", "S", "H", "C", "L", "I", "E", "N", "T">>,
      <<"P", "U", "T", "T", "Y">>,
      <<"B", "E", "I", "P">>,
      <<"P", "O", "T", "A", "T", "O">>,
      <<"T", "I", "N", "Y", "F", "U", "G", "U", "E">> }

\* terminal capabilities and their codes
MTTS ==
    << <<128, "PROXY">>, <<64, "SCREENREADER">>, <<32, "OSC_COLOR_PALETTE">>,
       <<16, "MOUSE_TRACKING">>, <<8, "XTERM256">>, <<4, "UTF-8">>,
       <<2, "VT100">>, <<1, "ANSI">> >>

----------------------------------------------------------------------------
(* protocol_flags: a dictionary, a function from its keys to their values. *)

InitFlags ==
    ("SCREENWIDTH" :> 78) @@ ("SCREENHEIGHT" :> 0) @@ ("FORCEDENDLINE" :> TRUE) @@
    ("ANSI" :> TRUE) @@ ("XTERM256" :> FALSE) @@ ("CLIENTNAME" :> "unknown") @@
    ("MCCP2" :> FALSE) @@ ("MCCP3" :> FALSE) @@ ("GMCP" :> FALSE) @@
    ("MSDP" :> FALSE) @@ ("SCREENREADER" :> FALSE) @@ ("ENCODING" :> "utf-8") @@
    ("NOPKEEPALIVE" :> TRUE)

SetFlag(f, k, v) == (k :> v) @@ f

\* dict.get(k, False) used as a condition
FlagSet(f, k) == k \in DOMAIN f /\ f[k] = TRUE

----------------------------------------------------------------------------
(* negotiate_TTYPE.  A call yields a result record:                        *)
(*   flags, step : protocol_flags and ttype_step after the call            *)
(*   send        : number of requestNegotiation(TTYPE, SEND) issued        *)
(*   done        : number of handshake_done() calls                        *)
(*   exc         : the exception that escapes the call, "" if it returns   *)

\* a payload element that is not a bytes object makes b"".join raise TypeError
Joinable(data) == \A i \in 1..Len(data) : data[i] # "NOTBYTES"

\* a byte that is not valid UTF-8 makes bytes.decode raise UnicodeDecodeError
Decodable(data) == \A i \in 1..Len(data) : data[i] # "xFF"

\* the exception classes an `except AttributeError` clause catches
CaughtAsAttributeError == {"AttributeError"}

\* reading the local `option` when the join failed and left it unassigned
ReadOption(bound) == IF bound THEN "" ELSE "UnboundLocalError"

\* the guard one step late and without the flag test
TTYPE_ignored_late(f, step) == step > 4

TTYPE_ignored(f, step) == (DOMAIN f # {} /\ FlagSet(f, "TTYPE")) \/ step > 3

TTYPE_Step1(f, clientname) ==
    LET isMudlet == startswith(clientname, tMUDLET)
        x1 == IF isMudlet
              THEN StrGE(strip(SubSeq(clientname, Len(tMUDLET) + 1, Len(clientname))),
                         tMinMudlet)
              ELSE FALSE
        f1 == IF isMudlet THEN SetFlag(f, "FORCEDENDLINE", FALSE) ELSE f
        f2 == IF startswith(clientname, tTINTIN) THEN SetFlag(f1, "FORCEDENDLINE", TRUE) ELSE f1
        xterm256 == IF \/ startswith(clientname, tXTERM)
                       \/ endswith(clientname, t256COLOR)
                       \/ clientname \in KnownXterm256Clients
                    THEN TRUE ELSE x1
    IN  SetFlag(SetFlag(SetFlag(f2, "ANSI", TRUE), "XTERM256", xterm256),
                "CLIENTNAME", Str(clientname))

TTYPE_Step2(f, term) ==
    LET tupper == upper(term)
        xterm256 == \/ endswith(tupper, t256COLOR)
                    \/ (endswith(tupper, tXTERM) /\ ~endswith(tupper, tCOLOR))
        f1 == IF xterm256 THEN SetFlag(SetFlag(f, "ANSI", TRUE), "XTERM256", xterm256) ELSE f
    IN  SetFlag(f1, "TERM", Str(term))

\* a comparison in place of the mask
BitSet_ge(n, bitval) == n >= bitval

\* option & bitval > 0, bitval a power of two
BitSet(n, bitval) == (n \div bitval) % 2 = 1

RECURSIVE MTTS_support(_, _, _)
MTTS_support(f, n, i) ==
    IF i > Len(MTTS) THEN f
    ELSE MTTS_support(IF BitSet(n, MTTS[i][1]) THEN SetFlag(f, MTTS[i][2], TRUE) ELSE f,
                      n, i + 1)

TTYPE_Step3(f, option) ==
    LET f1 == IF startswith(option, tMTTS)
              THEN LET tok == strip(SubSeq(option, 5, Len(option)))
                   IN  IF isdigit(tok) THEN MTTS_support(f, int(tok), 1)
                       ELSE SetFlag(f, Str(upper(tok)), TRUE)
              ELSE f
    IN  SetFlag(f1, "TTYPE", TRUE)

TTYPE_call(f, step, data) ==
    LET same == [flags |-> f, step |-> step, send |-> 0, done |-> 0, exc |-> ""]
        bound == Joinable(data)
        option == lstrip(data, IS)
        rd == ReadOption(bound)
    IN  IF TTYPE_ignored(f, step) THEN same
        ELSE IF bound /\ ~Decodable(data) THEN [same EXCEPT !.exc = "UnicodeDecodeError"]
        ELSE IF step = 1 THEN
            IF rd # "" /\ rd \notin CaughtAsAttributeError THEN [same EXCEPT !.exc = rd]
            ELSE [flags |-> TTYPE_Step1(f, IF rd = "" THEN upper(option) ELSE tUNKNOWN),
                  step |-> step + 1, send |-> 1, done |-> 0, exc |-> ""]
        ELSE IF step = 2 THEN
            IF rd # "" THEN [same EXCEPT !.exc = rd]
            ELSE [flags |-> TTYPE_Step2(f, option),
                  step |-> step + 1, send |-> 1, done |-> 0, exc |-> ""]
        ELSE IF step = 3 THEN
            IF rd # "" THEN [same EXCEPT !.exc = rd]
            ELSE [flags |-> TTYPE_Step3(f, option),
                  step |-> step + 1, send |-> 0, done |-> 1, exc |-> ""]
        ELSE [same EXCEPT !.step = step + 1]

\* the notification hook the handshake calls; it is not defined by the class
handshake_done(n) == n + 1

----------------------------------------------------------------------------
(* negotiate_NAWS.  data is the list of single bytes of the payload.       *)

HexDigits == <<"0","1","2","3","4","5","6","7","8","9","a","b","c","d","e","f">>

\* codecs.encode(b, "hex"): two hex digits for every byte
RECURSIVE HexEncode(_)
HexEncode(b) ==
    IF b = <<>> THEN <<>>
    ELSE <<HexDigits[(Head(b) \div 16) + 1], HexDigits[(Head(b) % 16) + 1]>> \o HexEncode(Tail(b))

HexVal(c) == (CHOOSE d \in 1..16 : HexDigits[d] = c) - 1

\* int(text, 16)
RECURSIVE Int16(_)
Int16(t) == IF t = <<>> THEN 0 ELSE 16 * Int16(SubSeq(t, 1, Len(t) - 1)) + HexVal(t[Len(t)])

\* the two bytes of each value taken low byte first
NAWS_call_le(f, data) ==
    IF Len(data) = 4
    THEN SetFlag(SetFlag(f, "SCREENWIDTH", Int16(HexEncode(<<data[2], data[1]>>))),
                 "SCREENHEIGHT", Int16(HexEncode(<<data[4], data[3]>>)))
    ELSE f

NAWS_call(f, data) ==
    IF Len(data) = 4
    THEN SetFlag(SetFlag(f, "SCREENWIDTH", Int16(HexEncode(<<data[1], data[2]>>))),
                 "SCREENHEIGHT", Int16(HexEncode(<<data[3], data[4]>>)))
    ELSE f

----------------------------------------------------------------------------
(* The option tables of the module.                                        *)

SUPPORTED_FEATURES ==
    (MCCP1 :> FALSE) @@ (MCCP2 :> TRUE) @@ (MCCP3 :> TRUE) @@ (MSSP :> TRUE) @@
    (MXP :> TRUE) @@ (MSDP :> TRUE) @@ (GMCP :> TRUE) @@ (NAWS :> TRUE) @@ (TTYPE :> TRUE)

\* the legacy compression code in the place of outbound compression
NEGOTIATE_ORDER_legacy == <<SGA, NAWS, TTYPE, MCCP1, MCCP3, MSSP, MSDP, GMCP, MXP>>

NEGOTIATE_ORDER == <<SGA, NAWS, TTYPE, MCCP2, MCCP3, MSSP, MSDP, GMCP, MXP>>

\* the options that have an (enable, disable) pair in willwontMap
willwontMap == {MCCP2, MCCP3, NAWS, TTYPE, GMCP, MSDP, MSSP, MXP, SGA, LINEMODE}

\* the enable_X / disable_X methods the class defines
Handlers ==
    {"enable_MCCP2", "disable_MCCP2", "enable_MCCP3", "disable_MCCP3", "enable_NAWS",
     "disable_NAWS", "enable_TTYPE", "disable_TTYPE", "enable_GMCP", "disable_GMCP",
     "enable_MSDP", "disable_MSDP", "enable_MSSP", "disable_MSSP", "enable_MXP",
     "disable_MXP", "enable_SGA", "disable_SGA", "enable_LINEMODE", "disable_LINEMODE"}

\* the attributes __init__ reads to build the pairs of willwontMap
willwontHooks ==
    (MCCP2 :> <<"enable_MCCP2", "disable_MCCP2">>) @@
    (MCCP3 :> <<"enable_MCCP3", "disable_MCCP3">>) @@
    (NAWS :> <<"enable_NAWS", "disable_NAWS">>) @@
    (TTYPE :> <<"enable_TTYPE", "disable_TTYPE">>) @@
    (GMCP :> <<"enable_GMCP", "disable_GMCP">>) @@
    (MSDP :> <<"enable_MSDB", "disable_MSDP">>) @@
    (MSSP :> <<"enable_MSSP", "disable_MSSP">>) @@
    (MXP :> <<"enable_MXP", "disable_MXP">>) @@
    (SGA :> <<"enable_SGA", "disable_SGA">>) @@
    (LINEMODE :> <<"enable_LINEMODE", "disable_LINEMODE">>)

\* SUPPORTED_FEATURES.get(option, False)
enableLocal(option) == IF option \in DOMAIN SUPPORTED_FEATURES THEN SUPPORTED_FEATURES[option] ELSE FALSE

\* the class does not override enableRemote: the engine's own answer
enableRemote(option) == FALSE

\* every option code the model lets the two sides talk about
Options == {SGA, NAWS, TTYPE, MCCP2, MCCP3, MSSP, MSDP, GMCP, MXP, LINEMODE, MCCP1}

----------------------------------------------------------------------------
(* The negotiation engine: per option, what we do (us) and what the peer   *)
(* does (him), each "no"/"yes" with a negotiating flag set while a request *)
(* of ours awaits its reply.                                               *)

InitOpt == [us |-> "no", usNeg |-> FALSE, him |-> "no", himNeg |-> FALSE]

Command(verb, option) == <<IAC, verb, option>>

\* Telnet.will(option): the request is written unless one is pending or the
\* option is already on; the result is [st, out]
will(st, option) ==
    IF st.usNeg \/ st.himNeg \/ st.us = "yes"
    THEN [st |-> st, out |-> <<>>]
    ELSE [st |-> [st EXCEPT !.usNeg = TRUE], out |-> <<Command(WILL, option)>>]

\* Telnet.do(option)
do(st, option) ==
    IF st.usNeg \/ st.himNeg \/ st.him = "yes"
    THEN [st |-> st, out |-> <<>>]
    ELSE [st |-> [st EXCEPT !.himNeg = TRUE], out |-> <<Command(DO, option)>>]

\* IAC bytes of a sub-negotiation payload are doubled
RECURSIVE EscapeIAC(_)
EscapeIAC(b) ==
    IF b = <<>> THEN <<>>
    ELSE (IF Head(b) = IAC THEN <<IAC, IAC>> ELSE <<Head(b)>>) \o EscapeIAC(Tail(b))

requestNegotiation(about, data) == <<IAC, SB, about>> \o EscapeIAC(data) \o <<IAC, SE>>

\* The peer's WILL/WONT/DO/DONT for an option whose state is st.  The result:
\*   st   : the state after it
\*   out  : the replies written
\*   fire : the side of the pending request that got its answer, "callback"
\*          (accepted) or "errback" (refused); "" when no request was pending
\*   exc  : an exception that escapes the engine
\* disRaises: whether the engine's disableLocal/disableRemote raises; the class
\* defines neither, so it depends on the base the session is built on.
Receive(verb, st, option, disRaises) ==
    LET r0 == [st |-> st, out |-> <<>>, fire |-> "", exc |-> ""]
        dis == IF disRaises THEN "NotImplementedError" ELSE ""
    IN
    IF verb = WILL THEN
        IF st.him = "no" /\ ~st.himNeg THEN
            IF enableRemote(option)
            THEN [r0 EXCEPT !.st.him = "yes", !.out = <<Command(DO, option)>>]
            ELSE [r0 EXCEPT !.out = <<Command(DONT, option)>>]
        ELSE IF st.him = "no" /\ st.himNeg THEN
            [r0 EXCEPT !.st.him = "yes", !.st.himNeg = FALSE, !.fire = "callback",
                       !.exc = IF enableRemote(option) THEN "" ELSE "AssertionError"]
        ELSE IF ~st.himNeg THEN r0
        ELSE [r0 EXCEPT !.exc = "AssertionError"]
    ELSE IF verb = WONT THEN
        IF st.him = "no" /\ ~st.himNeg THEN r0
        ELSE IF st.him = "no" /\ st.himNeg THEN
            [r0 EXCEPT !.st.himNeg = FALSE, !.fire = "errback"]
        ELSE IF ~st.himNeg THEN
            [r0 EXCEPT !.st.him = "no", !.exc = dis,
                       !.out = IF disRaises THEN <<>> ELSE <<Command(DONT, option)>>]
        ELSE [r0 EXCEPT !.st.him = "no", !.st.himNeg = FALSE, !.fire = "callback", !.exc = dis]
    ELSE IF verb = DO THEN
        IF st.us = "no" /\ ~st.usNeg THEN
            IF enableLocal(option)
            THEN [r0 EXCEPT !.st.us = "yes", !.out = <<Command(WILL, option)>>]
            ELSE [r0 EXCEPT !.out = <<Command(WONT, option)>>]
        ELSE IF st.us = "no" /\ st.usNeg THEN
            [r0 EXCEPT !.st.us = "yes", !.st.usNeg = FALSE, !.fire = "callback"]
        ELSE IF ~st.usNeg THEN r0
        ELSE [r0 EXCEPT !.exc = "AssertionError"]
    ELSE \* DONT
        IF st.us = "no" /\ ~st.usNeg THEN r0
        ELSE IF st.us = "no" /\ st.usNeg THEN
            [r0 EXCEPT !.st.usNeg = FALSE, !.fire = "errback"]
        ELSE IF ~st.usNeg THEN
            [r0 EXCEPT !.st.us = "no", !.exc = dis,
                       !.out = IF disRaises THEN <<>> ELSE <<Command(WONT, option)>>]
        ELSE [r0 EXCEPT !.st.us = "no", !.st.usNeg = FALSE, !.fire = "callback", !.exc = dis]

----------------------------------------------------------------------------
(* The hooks connectionMade attaches to its requests.                      *)

\* positional parameters the enable_X / disable_X hooks declare besides self
HookParams == 0

\* a Deferred calls its callback or errback with one argument, the result
DeferredArgs == 1

\* a hook called with the wrong number of arguments raises TypeError inside
\* the Deferred and its body does not run
HookRuns == HookParams = DeferredArgs

\* zlib.Z_SYNC_FLUSH, an int, as handed to _write by end_MCCP2
ZLIB_FLUSH == 2

begin_MCCP2(f) ==
    [flags |-> SetFlag(f, "MCCP2", TRUE), out |-> << <<IAC, SB, MCCP2, IAC, SE>> >>]

end_MCCP2(f) ==
    [flags |-> SetFlag(f, "MCCP2", FALSE), out |-> << <<ZLIB_FLUSH>> >>]

\* a disable hook that asks again when the peer refuses
Hook_retry(fire, side, option, f) ==
    IF fire = "errback" /\ side = "us" /\ option \in willwontMap
    THEN [flags |-> f, out |-> <<Command(WILL, option)>>]
    ELSE [flags |-> f, out |-> <<>>]

\* enable_X (fire = "callback") or disable_X (fire = "errback") of the option
\* whose request of side "us" (will) or "him" (do) was answered
Hook(fire, side, option, f) ==
    LET none == [flags |-> f, out |-> <<>>]
        attached == IF side = "us" THEN option \in willwontMap
                    ELSE option = LINEMODE /\ fire = "errback"
    IN  IF fire = "" \/ ~attached \/ ~HookRuns THEN none
        ELSE IF fire = "callback" /\ option = MCCP2 THEN begin_MCCP2(f)
        ELSE IF fire = "callback" /\ option = TTYPE
            THEN [none EXCEPT !.out = <<requestNegotiation(TTYPE, <<SEND>>)>>]
        ELSE IF fire = "errback" /\ option = MCCP2 /\ f["MCCP2"] = TRUE THEN end_MCCP2(f)
        ELSE none

\* no LoopingCall made, the attribute None
NoTimer == [calls |-> <<>>, cur |-> 0]

\* a new LoopingCall started whatever the current one does
toggle_nop_keepalive_restart(k) == [calls |-> Append(k.calls, TRUE), cur |-> Len(k.calls) + 1]

\* toggle_nop_keepalive: stop the current LoopingCall if it runs, else start
\* a new one and make it the current one
toggle_nop_keepalive(k) ==
    IF k.cur # 0 /\ k.calls[k.cur]
    THEN [k EXCEPT !.calls[k.cur] = FALSE]
    ELSE [calls |-> Append(k.calls, TRUE), cur |-> Len(k.calls) + 1]

\* what a tick of the LoopingCall writes
send_nop_keepalive(f) == IF FlagSet(f, "NOPKEEPALIVE") THEN << <<IAC, NOP>> >> ELSE <<>>

\* the requests of connectionMade: DO LINEMODE, then WILL for NEGOTIATE_ORDER
RECURSIVE WillAll(_, _, _)
WillAll(opts, order, out) ==
    IF order = <<>> THEN [opts |-> opts, out |-> out]
    ELSE LET r == will(opts[Head(order)], Head(order))
         IN  WillAll([opts EXCEPT ![Head(order)] = r.st], Tail(order), out \o r.out)

\* the line-mode request left out
connectionMade_requests_nolinemode(opts) == WillAll(opts, NEGOTIATE_ORDER, <<>>)

connectionMade_requests(opts) ==
    LET d == do(opts[LINEMODE], LINEMODE)
    IN  WillAll([opts EXCEPT ![LINEMODE] = d.st], NEGOTIATE_ORDER, d.out)

----------------------------------------------------------------------------
(* ZLIB_COMPRESS = zlib.compressobj(9): one deflate stream.  Its state is   *)
(* the input it has consumed (the window later input is matched against)   *)
(* and whether the stream header has been emitted.  Output is written as   *)
(* header bytes, then per call either a literal run or a back-reference    *)
(* into the window, then the four bytes of a Z_SYNC_FLUSH.                 *)

ZHeader == <<120, 218>>
ZSync == <<0, 0, 255, 255>>
LITERALS == 256
MATCH == 257
MinMatch == 3

NewCompressor == [window |-> <<>>, started |-> FALSE]

Occurrences(w, d) ==
    {p \in 1..(Len(w) - Len(d) + 1) : SubSeq(w, p, p + Len(d) - 1) = d}

Latest(S) == CHOOSE p \in S : \A q \in S : q <= p

\* z.compress(data) + z.flush(Z_SYNC_FLUSH): [z, data]
Deflate(z, d) ==
    LET occ == Occurrences(z.window, d)
        body == IF Len(d) >= MinMatch /\ occ # {}
                THEN <<MATCH, Len(z.window) - Latest(occ) + 1, Len(d)>>
                ELSE IF d = <<>> THEN <<>> ELSE <<LITERALS, Len(d)>> \o d
    IN  [z |-> [window |-> z.window \o d, started |-> TRUE],
         data |-> (IF z.started THEN <<>> ELSE ZHeader) \o body \o ZSync]

renderOutgoing(data) == data

compressData_always(f, z, data) == Deflate(z, data)

compressData(f, z, data) ==
    IF f["MCCP2"] = TRUE THEN Deflate(z, data) ELSE [z |-> z, data |-> data]

----------------------------------------------------------------------------
(* Inbound: the line buffer, the engine's parser and the decompressor.     *)

CR == 13
LF == 10
NUL == 0
delimiter == <<CR, LF>>

\* position of the first occurrence of d in buffer, 0 if there is none
Find(buffer, d) ==
    LET occ == Occurrences(buffer, d)
    IN  IF occ = {} THEN 0 ELSE CHOOSE p \in occ : \A q \in occ : p <= q

\* the first line only
processTextCommands_once(buffer, events) ==
    LET p == Find(buffer, delimiter)
    IN  IF p = 0 THEN [buffer |-> buffer, events |-> events]
        ELSE [buffer |-> SubSeq(buffer, p + Len(delimiter), Len(buffer)),
              events |-> Append(events, SubSeq(buffer, 1, p - 1))]

\* buffer.split(delimiter, 1), one event per command, again while bytes remain
RECURSIVE processTextCommands(_, _)
processTextCommands(buffer, events) ==
    LET p == Find(buffer, delimiter)
        cmd == SubSeq(buffer, 1, p - 1)
        remaining == SubSeq(buffer, p + Len(delimiter), Len(buffer))
    IN  IF p = 0 THEN [buffer |-> buffer, events |-> events]
        ELSE IF remaining # <<>> THEN processTextCommands(remaining, Append(events, cmd))
        ELSE [buffer |-> remaining, events |-> Append(events, cmd)]

NewParser == [state |-> "data", command |-> 0, commands |-> <<>>]

\* what the parser hands on: application data, a command, an option
\* command or the payload of a sub-negotiation
Delivery(kind, verb, data) == [kind |-> kind, verb |-> verb, data |-> data]

Flushed(app, out) == IF app # <<>> THEN Append(out, Delivery("app", 0, app)) ELSE out

\* the engine's dataReceived: t the parser, app the application bytes not
\* yet handed on, out the deliveries made so far
RECURSIVE Telnet_dataReceived(_, _, _, _)
Telnet_dataReceived(t, data, app, out) ==
    IF data = <<>> THEN [t |-> t, out |-> Flushed(app, out), exc |-> ""]
    ELSE LET b == Head(data)
             rest == Tail(data)
         IN  IF t.state = "data" THEN
                 IF b = IAC THEN Telnet_dataReceived([t EXCEPT !.state = "escaped"], rest, app, out)
                 ELSE IF b = CR THEN Telnet_dataReceived([t EXCEPT !.state = "newline"], rest, app, out)
                 ELSE Telnet_dataReceived(t, rest, Append(app, b), out)
             ELSE IF t.state = "escaped" THEN
                 IF b = IAC THEN Telnet_dataReceived([t EXCEPT !.state = "data"], rest, Append(app, b), out)
                 ELSE IF b = SB
                     THEN Telnet_dataReceived([t EXCEPT !.state = "subnegotiation", !.commands = <<>>],
                                              rest, app, out)
                 ELSE IF b \in {NOP, GA}
                     THEN Telnet_dataReceived([t EXCEPT !.state = "data"], rest, <<>>,
                                              Append(Flushed(app, out), Delivery("command", b, <<>>)))
                 ELSE IF b \in {WILL, WONT, DO, DONT}
                     THEN Telnet_dataReceived([t EXCEPT !.state = "command", !.command = b],
                                              rest, app, out)
                 ELSE [t |-> t, out |-> out, exc |-> "ValueError"]
             ELSE IF t.state = "command" THEN
                 Telnet_dataReceived([t EXCEPT !.state = "data", !.command = 0], rest, <<>>,
                                     Append(Flushed(app, out), Delivery("option", t.command, <<b>>)))
             ELSE IF t.state = "newline" THEN
                 IF b = LF THEN Telnet_dataReceived([t EXCEPT !.state = "data"], rest, Append(app, LF), out)
                 ELSE IF b = NUL
                     THEN Telnet_dataReceived([t EXCEPT !.state = "data"], rest, Append(app, CR), out)
                 ELSE IF b = IAC
                     THEN Telnet_dataReceived([t EXCEPT !.state = "escaped"], rest, Append(app, CR), out)
                 ELSE Telnet_dataReceived([t EXCEPT !.state = "data"], rest, app \o <<CR, b>>, out)
             ELSE IF t.state = "subnegotiation" THEN
                 IF b = IAC
                 THEN Telnet_dataReceived([t EXCEPT !.state = "subnegotiation-escaped"], rest, app, out)
                 ELSE Telnet_dataReceived([t EXCEPT !.commands = Append(@, b)], rest, app, out)
             ELSE IF b = SE
                 THEN Telnet_dataReceived([t EXCEPT !.state = "data", !.commands = <<>>], rest, <<>>,
                                          Append(Flushed(app, out), Delivery("negotiate", 0, t.commands)))
                 ELSE Telnet_dataReceived([t EXCEPT !.state = "subnegotiation", !.commands = Append(@, b)],
                                          rest, app, out)

\* a byte b of the peer's stream as its compressor emits it
Z0 == 1000

NewDecompressor == [header |-> 0]

\* ZLIB_DECOMPRESS.decompress(data) + ZLIB_DECOMPRESS.flush(ZLIB_FLUSH)
RECURSIVE decompress(_, _, _)
decompress(z, data, out) ==
    IF data = <<>> THEN [z |-> z, data |-> out, exc |-> ""]
    ELSE LET b == Head(data)
         IN  IF z.header < Len(ZHeader)
             THEN IF b = ZHeader[z.header + 1]
                  THEN decompress([z EXCEPT !.header = @ + 1], Tail(data), out)
                  ELSE [z |-> z, data |-> out, exc |-> "zlib.error"]
             ELSE IF b >= Z0 THEN decompress(z, Tail(data), Append(out, b - Z0))
             ELSE [z |-> z, data |-> out, exc |-> "zlib.error"]

begin_MCCP3(f) == SetFlag(f, "MCCP3", TRUE)

\* the deliveries of one read applied in order: application data to the
\* line buffer, the MCCP3 sub-negotiation to negotiate_MCCP3
RECURSIVE Deliver(_, _)
Deliver(st, out) ==
    IF out = <<>> THEN st
    ELSE LET d == Head(out)
         IN  IF d.kind = "app"
             THEN LET r == processTextCommands(st.buffer \o d.data, st.events)
                  IN  Deliver([st EXCEPT !.buffer = r.buffer, !.events = r.events,
                                         !.app = @ \o d.data], Tail(out))
             ELSE IF d.kind = "negotiate" /\ d.data # <<>> /\ Head(d.data) = MCCP3
             THEN Deliver([st EXCEPT !.flags = begin_MCCP3(@)], Tail(out))
             ELSE Deliver(st, Tail(out))

----------------------------------------------------------------------------
(* State after construction, and the operations.                           *)

NoCall == [op |-> "", step |-> 0, data |-> <<>>, bytes |-> <<>>, option |-> 0]

Init ==
    /\ protocol_flags = [s \in Sessions |-> InitFlags]
    /\ ttype_step = [s \in Sessions |-> 1]
    /\ transport = [s \in Sessions |-> <<>>]
    /\ optstate = [s \in Sessions |-> [o \in Options |-> InitOpt]]
    /\ nop_keep_alive = [s \in Sessions |-> NoTimer]
    /\ tcp_keepalive = [s \in Sessions |-> FALSE]
    /\ connected = [s \in Sessions |-> FALSE]
    /\ zlib_compress = NewCompressor
    /\ handshakes = [s \in Sessions |-> 0]
    /\ raised = [s \in Sessions |-> ""]
    /\ last = [s \in Sessions |-> NoCall]
    /\ delivered = [s \in Sessions |-> 0]
    /\ refused = [s \in Sessions |-> {}]
    /\ sent = [s \in Sessions |-> <<>>]
    /\ closed = [s \in Sessions |-> FALSE]
    /\ game_data_buffer = [s \in Sessions |-> <<>>]
    /\ inputfuncs_buffer = [s \in Sessions |-> <<>>]
    /\ telnet = [s \in Sessions |-> NewParser]
    /\ zlib_decompress = NewDecompressor
    /\ received = [s \in Sessions |-> [wire |-> <<>>, app |-> <<>>]]

\* bounds of the model
MaxPayloads == 4
MaxWrites == 12
MaxSends == 2
MaxMask == 256
MaxNawsLen == 5
MaxOff == 1
MaxAppBytes == 5
MaxWire == 14
MaxTimers == 3
MaxTicks == 3
MaxLoad == 15

connectionMade(s) ==
    /\ ~connected[s]
    /\ ~closed[s]
    /\ LET r == connectionMade_requests(optstate[s])
       IN  /\ optstate' = [optstate EXCEPT ![s] = r.opts]
           /\ transport' = [transport EXCEPT ![s] = @ \o r.out]
    /\ tcp_keepalive' = [tcp_keepalive EXCEPT ![s] = TRUE]
    /\ nop_keep_alive' = [nop_keep_alive EXCEPT ![s] = toggle_nop_keepalive([@ EXCEPT !.cur = 0])]
    /\ connected' = [connected EXCEPT ![s] = TRUE]
    /\ raised' = [raised EXCEPT ![s] = ""]
    /\ last' = [last EXCEPT ![s] = [NoCall EXCEPT !.op = "connectionMade"]]
    /\ UNCHANGED <<protocol_flags, ttype_step, zlib_compress, handshakes, delivered,
                   refused, sent, closed,
                   game_data_buffer, inputfuncs_buffer, telnet, zlib_decompress, received>>

negotiate_TTYPE(s, data) ==
    /\ connected[s]
    /\ delivered[s] < MaxPayloads
    /\ LET r == TTYPE_call(protocol_flags[s], ttype_step[s], data)
       IN  /\ protocol_flags' = [protocol_flags EXCEPT ![s] = r.flags]
           /\ ttype_step' = [ttype_step EXCEPT ![s] = r.step]
           /\ transport' = [transport EXCEPT ![s] =
                  IF r.send = 1 THEN Append(@, requestNegotiation(TTYPE, <<SEND>>)) ELSE @]
           /\ handshakes' = [handshakes EXCEPT ![s] = IF r.done = 1 THEN handshake_done(@) ELSE @]
           /\ raised' = [raised EXCEPT ![s] = r.exc]
    /\ last' = [last EXCEPT ![s] = [NoCall EXCEPT !.op = "TTYPE", !.step = ttype_step[s],
                                                  !.data = data]]
    /\ delivered' = [delivered EXCEPT ![s] = @ + 1]
    /\ UNCHANGED <<optstate, nop_keep_alive, tcp_keepalive, connected, zlib_compress,
                   refused, sent, closed,
                   game_data_buffer, inputfuncs_buffer, telnet, zlib_decompress, received>>

negotiate_NAWS(s, data) ==
    /\ connected[s]
    /\ protocol_flags' = [protocol_flags EXCEPT ![s] = NAWS_call(@, data)]
    /\ raised' = [raised EXCEPT ![s] = ""]
    /\ last' = [last EXCEPT ![s] = [NoCall EXCEPT !.op = "NAWS", !.bytes = data]]
    /\ UNCHANGED <<ttype_step, transport, optstate, nop_keep_alive, tcp_keepalive,
                   connected, zlib_compress, handshakes, delivered, refused, sent, closed,
                   game_data_buffer, inputfuncs_buffer, telnet, zlib_decompress, received>>

\* the peer sends IAC verb option
PeerCommand(s, verb, option, disRaises) ==
    /\ connected[s]
    /\ Len(transport[s]) < MaxWrites
    /\ LET st == optstate[s][option]
           r == Receive(verb, st, option, disRaises)
           side == IF verb \in {DO, DONT} THEN "us" ELSE "him"
           h == Hook(r.fire, side, option, protocol_flags[s])
       IN  /\ optstate' = [optstate EXCEPT ![s][option] = r.st]
           /\ protocol_flags' = [protocol_flags EXCEPT ![s] = h.flags]
           /\ transport' = [transport EXCEPT ![s] = @ \o h.out \o r.out]
           /\ raised' = [raised EXCEPT ![s] = r.exc]
           /\ refused' = [refused EXCEPT ![s] =
                  IF verb = DONT /\ st.usNeg /\ st.us = "no" THEN @ \cup {option} ELSE @]
    /\ last' = [last EXCEPT ![s] = [NoCall EXCEPT !.op = "peer", !.step = verb,
                                                  !.option = option]]
    /\ UNCHANGED <<ttype_step, nop_keep_alive, tcp_keepalive, connected, zlib_compress,
                   handshakes, delivered, sent, closed,
                   game_data_buffer, inputfuncs_buffer, telnet, zlib_decompress, received>>

\* the application switches outbound compression on
enable_MCCP2(s) ==
    /\ connected[s]
    /\ protocol_flags[s]["MCCP2"] = FALSE
    /\ LET r == begin_MCCP2(protocol_flags[s])
       IN  /\ protocol_flags' = [protocol_flags EXCEPT ![s] = r.flags]
           /\ transport' = [transport EXCEPT ![s] = @ \o r.out]
    /\ raised' = [raised EXCEPT ![s] = ""]
    /\ last' = [last EXCEPT ![s] = [NoCall EXCEPT !.op = "enable_MCCP2"]]
    /\ UNCHANGED <<ttype_step, optstate, nop_keep_alive, tcp_keepalive, connected,
                   zlib_compress, handshakes, delivered, refused, sent, closed,
                   game_data_buffer, inputfuncs_buffer, telnet, zlib_decompress, received>>

\* disable_MCCP2, called by the application.  end_MCCP2 hands the int
\* ZLIB_FLUSH to the transport; whether the transport takes or rejects an
\* object that is not bytes is the transport's choice.
disable_MCCP2(s, rejects) ==
    /\ connected[s]
    /\ Len(SelectSeq(transport[s], LAMBDA w : w = <<ZLIB_FLUSH>>)) < MaxOff
    /\ IF protocol_flags[s]["MCCP2"] = TRUE
       THEN IF rejects
            THEN /\ raised' = [raised EXCEPT ![s] = "TypeError"]
                 /\ UNCHANGED <<protocol_flags, transport>>
            ELSE LET r == end_MCCP2(protocol_flags[s])
                 IN  /\ protocol_flags' = [protocol_flags EXCEPT ![s] = r.flags]
                     /\ transport' = [transport EXCEPT ![s] = @ \o r.out]
                     /\ raised' = [raised EXCEPT ![s] = ""]
       ELSE /\ raised' = [raised EXCEPT ![s] = ""]
            /\ UNCHANGED <<protocol_flags, transport>>
    /\ last' = [last EXCEPT ![s] = [NoCall EXCEPT !.op = "disable_MCCP2"]]
    /\ UNCHANGED <<ttype_step, optstate, nop_keep_alive, tcp_keepalive, connected,
                   zlib_compress, handshakes, delivered, refused, sent, closed,
                   game_data_buffer, inputfuncs_buffer, telnet, zlib_decompress, received>>

Send(s, data, tail, op) ==
    /\ connected[s]
    /\ Len(sent[s]) < MaxSends
    /\ LET r == compressData(protocol_flags[s], zlib_compress, renderOutgoing(data))
       IN  /\ zlib_compress' = r.z
           /\ transport' = [transport EXCEPT ![s] = Append(@, r.data \o tail)]
    /\ sent' = [sent EXCEPT ![s] = Append(@, data)]
    /\ raised' = [raised EXCEPT ![s] = ""]
    /\ last' = [last EXCEPT ![s] = [NoCall EXCEPT !.op = op, !.bytes = data]]
    /\ UNCHANGED <<protocol_flags, ttype_step, optstate, nop_keep_alive, tcp_keepalive,
                   connected, handshakes, delivered, refused, closed,
                   game_data_buffer, inputfuncs_buffer, telnet, zlib_decompress, received>>

sendText(s, data) == Send(s, data, <<>>, "sendText")

sendPrompt(s, data) == Send(s, data, <<IAC, GA>>, "sendPrompt")

\* renderMSDP and renderGMCP are not defined by the class: with either flag
\* set the call ends in AttributeError before anything is written
sendOOB(s, cmd) ==
    IF protocol_flags[s]["MSDP"] = TRUE \/ protocol_flags[s]["GMCP"] = TRUE
    THEN /\ connected[s]
         /\ raised' = [raised EXCEPT ![s] = "AttributeError"]
         /\ last' = [last EXCEPT ![s] = [NoCall EXCEPT !.op = "sendOOB", !.data = cmd]]
         /\ UNCHANGED <<protocol_flags, ttype_step, transport, optstate, nop_keep_alive,
                        tcp_keepalive, connected, zlib_compress, handshakes, delivered,
                        refused, sent, closed,
                   game_data_buffer, inputfuncs_buffer, telnet, zlib_decompress, received>>
    ELSE Send(s, <<>>, <<>>, "sendOOB")

applicationDataReceived(s, data) ==
    /\ connected[s]
    /\ Len(received[s].app) + Len(data) <= MaxAppBytes
    /\ LET r == processTextCommands(game_data_buffer[s] \o data, inputfuncs_buffer[s])
       IN  /\ game_data_buffer' = [game_data_buffer EXCEPT ![s] = r.buffer]
           /\ inputfuncs_buffer' = [inputfuncs_buffer EXCEPT ![s] = r.events]
    /\ received' = [received EXCEPT ![s].app = @ \o data]
    /\ raised' = [raised EXCEPT ![s] = ""]
    /\ last' = [last EXCEPT ![s] = [NoCall EXCEPT !.op = "applicationDataReceived", !.bytes = data]]
    /\ UNCHANGED <<protocol_flags, ttype_step, transport, optstate, nop_keep_alive,
                   tcp_keepalive, connected, zlib_compress, handshakes, delivered,
                   refused, sent, closed, telnet, zlib_decompress>>

\* one read of application data, commands and MCCP3 sub-negotiations; option
\* commands and the other sub-negotiations are the operations above
dataReceived(s, data) ==
    /\ connected[s]
    /\ Len(received[s].wire) + Len(data) <= MaxWire
    /\ LET d == IF protocol_flags[s]["MCCP3"] = TRUE
                THEN decompress(zlib_decompress, data, <<>>)
                ELSE [z |-> zlib_decompress, data |-> data, exc |-> ""]
           p == Telnet_dataReceived(telnet[s], d.data, <<>>, <<>>)
           st == Deliver([flags |-> protocol_flags[s], buffer |-> game_data_buffer[s],
                          events |-> inputfuncs_buffer[s], app |-> received[s].app], p.out)
       IN  /\ zlib_decompress' = d.z
           /\ IF d.exc # ""
              THEN /\ raised' = [raised EXCEPT ![s] = d.exc]
                   /\ received' = [received EXCEPT ![s].wire = @ \o data]
                   /\ UNCHANGED <<protocol_flags, game_data_buffer, inputfuncs_buffer, telnet>>
              ELSE /\ \A i \in 1..Len(p.out) :
                          \/ p.out[i].kind \in {"app", "command"}
                          \/ /\ p.out[i].kind = "negotiate"
                             /\ p.out[i].data # <<>>
                             /\ Head(p.out[i].data) = MCCP3
                   /\ raised' = [raised EXCEPT ![s] = p.exc]
                   /\ telnet' = [telnet EXCEPT ![s] = p.t]
                   /\ protocol_flags' = [protocol_flags EXCEPT ![s] = st.flags]
                   /\ game_data_buffer' = [game_data_buffer EXCEPT ![s] = st.buffer]
                   /\ inputfuncs_buffer' = [inputfuncs_buffer EXCEPT ![s] = st.events]
                   /\ received' = [received EXCEPT ![s] = [wire |-> @.wire \o data, app |-> st.app]]
    /\ last' = [last EXCEPT ![s] = [NoCall EXCEPT !.op = "dataReceived", !.bytes = data]]
    /\ UNCHANGED <<ttype_step, transport, optstate, nop_keep_alive, tcp_keepalive,
                   connected, zlib_compress, handshakes, delivered, refused, sent, closed>>

\* the host switches the keepalive timer
ToggleKeepalive(s) ==
    /\ IF connected[s] \/ closed[s]
       THEN /\ Len(toggle_nop_keepalive(nop_keep_alive[s]).calls) <= MaxTimers
            /\ nop_keep_alive' = [nop_keep_alive EXCEPT ![s] = toggle_nop_keepalive(@)]
            /\ raised' = [raised EXCEPT ![s] = ""]
       ELSE /\ raised' = [raised EXCEPT ![s] = "AttributeError"]
            /\ UNCHANGED nop_keep_alive
    /\ last' = [last EXCEPT ![s] = [NoCall EXCEPT !.op = "toggle_nop_keepalive"]]
    /\ UNCHANGED <<protocol_flags, ttype_step, transport, optstate, tcp_keepalive,
                   connected, zlib_compress, handshakes, delivered, refused, sent, closed,
                   game_data_buffer, inputfuncs_buffer, telnet, zlib_decompress, received>>

\* the reactor fires the i-th LoopingCall, which runs _send_nop_keepalive
Tick(s, i) ==
    /\ i \in 1..Len(nop_keep_alive[s].calls)
    /\ nop_keep_alive[s].calls[i]
    /\ Len(SelectSeq(transport[s], LAMBDA w : w = <<IAC, NOP>>)) < MaxTicks
    /\ transport' = [transport EXCEPT ![s] = @ \o send_nop_keepalive(protocol_flags[s])]
    /\ raised' = [raised EXCEPT ![s] = ""]
    /\ last' = [last EXCEPT ![s] = [NoCall EXCEPT !.op = "tick", !.step = i]]
    /\ UNCHANGED <<protocol_flags, ttype_step, optstate, nop_keep_alive, tcp_keepalive,
                   connected, zlib_compress, handshakes, delivered, refused, sent, closed,
                   game_data_buffer, inputfuncs_buffer, telnet, zlib_decompress, received>>

\* the host sets the NOPKEEPALIVE entry of protocol_flags
SetOption(s, v) ==
    /\ protocol_flags[s]["NOPKEEPALIVE"] # v
    /\ protocol_flags' = [protocol_flags EXCEPT ![s] = SetFlag(@, "NOPKEEPALIVE", v)]
    /\ raised' = [raised EXCEPT ![s] = ""]
    /\ last' = [last EXCEPT ![s] = [NoCall EXCEPT !.op = "option"]]
    /\ UNCHANGED <<ttype_step, transport, optstate, nop_keep_alive, tcp_keepalive,
                   connected, zlib_compress, handshakes, delivered, refused, sent, closed,
                   game_data_buffer, inputfuncs_buffer, telnet, zlib_decompress, received>>

\* the connection is lost: the class overrides nothing, the engine's
\* connectionLost touches no state of the session
connectionLost(s) ==
    /\ connected[s]
    /\ connected' = [connected EXCEPT ![s] = FALSE]
    /\ closed' = [closed EXCEPT ![s] = TRUE]
    /\ raised' = [raised EXCEPT ![s] = ""]
    /\ last' = [last EXCEPT ![s] = [NoCall EXCEPT !.op = "connectionLost"]]
    /\ UNCHANGED <<protocol_flags, ttype_step, transport, optstate, nop_keep_alive,
                   tcp_keepalive, zlib_compress, handshakes, delivered, refused, sent,
                   game_data_buffer, inputfuncs_buffer, telnet, zlib_decompress, received>>

----------------------------------------------------------------------------
(* Inputs.  Terminal-type payloads as the engine delivers them: the bytes  *)
(* between IAC SB TTYPE and IAC SE, normally IS followed by the text.      *)

pMUDLET20 == <<IS>> \o <<"M", "U", "D", "L", "E", "T", " ", "2", ".", "0">>
pMUDLET10 == <<IS>> \o <<"M", "U", "D", "L", "E", "T", " ", "1", ".", "0">>
pTINTIN == <<IS>> \o tTINTIN
pANSI256 == <<IS>> \o <<"a", "n", "s", "i", "-", "2", "5", "6", "c", "o", "l", "o", "r">>
pXterm == <<"x", "t", "e", "r", "m">>
pEmpty == <<>>
pMTTS(n) == <<IS>> \o tMTTS \o <<" ">> \o Decimal(n)
pMTTSToken == <<IS>> \o tMTTS \o <<" ">> \o <<"u", "t", "f", "8">>
pMTTSGMCP == <<IS>> \o tMTTS \o <<" ">> \o <<"G", "M", "C", "P">>
pMTTSMCCP2 == <<IS>> \o tMTTS \o <<" ">> \o <<"M", "C", "C", "P", "2">>
pMTTSNOP == <<IS>> \o tMTTS \o <<" ">> \o <<"n", "o", "p", "k", "e", "e", "p", "a", "l", "i", "v", "e">>
pBadUtf8 == <<IS, "xFF">>
pNotBytes == <<"NOTBYTES">>

Malformed(data) == ~Joinable(data) \/ ~Decodable(data)

\* any client: text, empty and non-text payloads at any step
TTYPE_Payloads == {pMUDLET20, pANSI256, pMTTS(13), pXterm, pEmpty, pBadUtf8, pNotBytes}

\* a conforming client: name, terminal descriptor, then an MTTS bitmask
ConformingPayloads(step) ==
    IF step = 1 THEN {pMUDLET20, pMUDLET10, pTINTIN, pXterm}
    ELSE IF step = 2 THEN {pANSI256, pXterm, pEmpty}
    ELSE IF step = 3 THEN {pMTTS(n) : n \in 0..MaxMask} \cup {pMTTSToken}
    ELSE {pMTTS(13)}

\* window-size payloads
RECURSIVE ByteSeqs(_, _)
ByteSeqs(B, n) ==
    IF n = 0 THEN {<<>>}
    ELSE LET shorter == ByteSeqs(B, n - 1)
         IN  shorter \cup {Append(q, b) : q \in {x \in shorter : Len(x) = n - 1}, b \in B}

NAWS_Payloads == ByteSeqs({0, 255}, MaxNawsLen) \cup {<<0, 80, 0, 24>>, <<1, 0, 0, 80>>}

PeerOptions == {NAWS, MCCP2, MCCP1, LINEMODE}

Messages == {<<104, 101, 121>>, <<121, 111, 117>>}

----------------------------------------------------------------------------
(* Specifications.                                                         *)

\* one session and any terminal-type client
NextTTYPE ==
    \/ connectionMade("a")
    \/ \E data \in TTYPE_Payloads : negotiate_TTYPE("a", data)

SpecTTYPE == Init /\ [][NextTTYPE]_vars

\* one session and a conforming terminal-type client
NextMTTS ==
    \/ connectionMade("a")
    \/ \E data \in ConformingPayloads(ttype_step["a"]) : negotiate_TTYPE("a", data)

SpecMTTS == Init /\ [][NextMTTS]_vars

\* one session receiving window sizes
NextNAWS ==
    \/ connectionMade("a")
    \/ \E data \in NAWS_Payloads : negotiate_NAWS("a", data)

SpecNAWS == Init /\ [][NextNAWS]_vars

\* one session and a peer answering and offering options
NextNeg ==
    \/ connectionMade("a")
    \/ \E verb \in {WILL, WONT, DO, DONT}, option \in PeerOptions, disRaises \in BOOLEAN :
           PeerCommand("a", verb, option, disRaises)

SpecNeg == Init /\ [][NextNeg]_vars

\* two sessions sending text with outbound compression on
NextZ ==
    \E s \in Sessions :
        \/ connectionMade(s)
        \/ enable_MCCP2(s)
        \/ \E m \in Messages : protocol_flags[s]["MCCP2"] = TRUE /\ sendText(s, m)

SpecZ == Init /\ [][NextZ]_vars

\* what session s has written, read and started so far
Load(s) ==
    Len(transport[s]) + delivered[s] + Len(received[s].wire) + Len(received[s].app)
        + Len(nop_keep_alive[s].calls)

\* every operation on one session, with one input each
Next ==
    \/ Load("a") < MaxLoad /\ connectionMade("a")
    \/ Load("a") < MaxLoad /\ negotiate_TTYPE("a", pMTTS(13))
    \/ Load("a") < MaxLoad /\ negotiate_NAWS("a", <<0, 80, 0, 24>>)
    \/ Load("a") < MaxLoad /\ PeerCommand("a", DONT, MCCP2, FALSE)
    \/ Load("a") < MaxLoad /\ enable_MCCP2("a")
    \/ Load("a") < MaxLoad /\ disable_MCCP2("a", FALSE)
    \/ Load("a") < MaxLoad /\ sendText("a", <<104, 101, 121>>)
    \/ Load("a") < MaxLoad /\ sendPrompt("a", <<104, 101, 121>>)
    \/ Load("a") < MaxLoad /\ sendOOB("a", <<"p", "i", "n", "g">>)
    \/ Load("a") < MaxLoad /\ applicationDataReceived("a", <<104, 13, 10>>)
    \/ Load("a") < MaxLoad /\ dataReceived("a", <<255, 250, 87, 255, 240>>)
    \/ Load("a") < MaxLoad /\ ToggleKeepalive("a")
    \/ Load("a") < MaxLoad /\ Tick("a", 1)
    \/ Load("a") < MaxLoad /\ SetOption("a", FALSE)
    \/ Load("a") < MaxLoad /\ connectionLost("a")

Spec == Init /\ [][Next]_vars

----------------------------------------------------------------------------
(* Properties.                                                             *)

Done(s) == FlagSet(protocol_flags[s], "TTYPE")

SendRequest == <<255, 250, 24, 1, 255, 240>>

\* C1: every terminal-type payload delivered, whatever its content, advances
\* the step counter by one, and the handshake is Done (TTYPE flag set, one
\* handshake-complete notification) after exactly the third payload.
C1_EveryPayloadAdvances ==
    \A s \in Sessions :
        /\ ttype_step[s] = (IF delivered[s] < 3 THEN delivered[s] + 1 ELSE 4)
        /\ Done(s) <=> delivered[s] >= 3
        /\ handshakes[s] = (IF delivered[s] >= 3 THEN 1 ELSE 0)

\* C2: once the handshake is Done a further terminal-type payload changes no
\* capability flag and not the step counter, writes no SEND request and does
\* not notify again; the notification is issued at most once, and once when Done.
C2_IgnoredOnceDone ==
    [][\A s \in Sessions :
          /\ handshakes'[s] <= 1
          /\ Done(s)' => handshakes'[s] = 1
          /\ (Done(s) /\ delivered'[s] = delivered[s] + 1) =>
                 /\ protocol_flags'[s] = protocol_flags[s]
                 /\ ttype_step'[s] = ttype_step[s]
                 /\ transport'[s] = transport[s]
                 /\ handshakes'[s] = handshakes[s]
                 /\ raised'[s] = ""]_vars

C2_Witness ==
    \E s \in Sessions :
        Done(s) /\ last[s].op = "TTYPE" /\ last[s].step = 4 /\ handshakes[s] = 1

\* C3: at Step1 a payload that cannot be joined or decoded as text gives the
\* client name "UNKNOWN": nothing is raised, the step counter becomes 2 and
\* the next SEND request is written.
C3_MalformedIsUnknown ==
    \A s \in Sessions :
        (last[s].op = "TTYPE" /\ last[s].step = 1 /\ Malformed(last[s].data)) =>
            /\ raised[s] = ""
            /\ ttype_step[s] = 2
            /\ protocol_flags[s]["CLIENTNAME"] = "UNKNOWN"
            /\ transport[s] # <<>>
            /\ transport[s][Len(transport[s])] = SendRequest

\* the bit -> capability table as the claim lists it
C4_Table ==
    << <<128, "PROXY">>, <<64, "SCREENREADER">>, <<32, "OSC_COLOR_PALETTE">>,
       <<16, "MOUSE_TRACKING">>, <<8, "XTERM256">>, <<4, "UTF-8">>,
       <<2, "VT100">>, <<1, "ANSI">> >>

C4_HasBit(n, bit) ==
    \E hi \in 0..n, lo \in 0..(bit - 1) : n = hi * 2 * bit + bit + lo

\* C4: at Step3 a payload "MTTS n" sets the flag of every table entry whose
\* bit is set in n and changes no flag of an entry whose bit is clear; the
\* payloads "MUDLET 2.0", "ansi-256color", "MTTS 13" end with ANSI, UTF-8 and
\* XTERM256 true and the handshake complete after exactly three rounds.
C4_MTTSBits ==
    [][\A s \in Sessions : \A n \in 0..MaxMask :
          (/\ last'[s].op = "TTYPE" /\ last'[s].step = 3
           /\ last'[s].data = pMTTS(n)
           /\ delivered'[s] = delivered[s] + 1) =>
              /\ \A i \in 1..8 :
                    LET bit == C4_Table[i][1]
                        cap == C4_Table[i][2]
                    IN  IF C4_HasBit(n, bit)
                        THEN FlagSet(protocol_flags'[s], cap)
                        ELSE /\ (cap \in DOMAIN protocol_flags'[s]) <=>
                                    (cap \in DOMAIN protocol_flags[s])
                             /\ cap \in DOMAIN protocol_flags[s] =>
                                    protocol_flags'[s][cap] = protocol_flags[s][cap]
              /\ (/\ n = 13
                  /\ protocol_flags[s]["CLIENTNAME"] = "MUDLET 2.0"
                  /\ "TERM" \in DOMAIN protocol_flags[s]
                  /\ protocol_flags[s]["TERM"] = "ansi-256color") =>
                     /\ FlagSet(protocol_flags'[s], "ANSI")
                     /\ FlagSet(protocol_flags'[s], "UTF-8")
                     /\ FlagSet(protocol_flags'[s], "XTERM256")
                     /\ FlagSet(protocol_flags'[s], "TTYPE")
                     /\ handshakes'[s] = 1
                     /\ ttype_step'[s] = 4
                     /\ delivered'[s] = 3]_vars

C4_Witness ==
    \E s \in Sessions :
        /\ last[s].op = "TTYPE" /\ last[s].step = 3 /\ last[s].data = pMTTS(13)
        /\ protocol_flags[s]["CLIENTNAME"] = "MUDLET 2.0"
        /\ FlagSet(protocol_flags[s], "UTF-8")
        /\ "VT100" \notin DOMAIN protocol_flags[s]
        /\ Done(s)

\* C5: negotiate_NAWS with exactly four bytes b0..b3 sets SCREENWIDTH to
\* 256*b0 + b1 and SCREENHEIGHT to 256*b2 + b3; with any other length it
\* raises nothing and leaves every flag unchanged.
C5_WindowSize ==
    [][\A s \in Sessions :
          last'[s].op = "NAWS" =>
              LET b == last'[s].bytes
              IN  /\ raised'[s] = ""
                  /\ IF Len(b) = 4
                     THEN /\ protocol_flags'[s]["SCREENWIDTH"] = 256 * b[1] + b[2]
                          /\ protocol_flags'[s]["SCREENHEIGHT"] = 256 * b[3] + b[4]
                          /\ DOMAIN protocol_flags'[s] = DOMAIN protocol_flags[s]
                          /\ \A k \in DOMAIN protocol_flags[s] \ {"SCREENWIDTH", "SCREENHEIGHT"} :
                                 protocol_flags'[s][k] = protocol_flags[s][k]
                          /\ (b = <<0, 80, 0, 24>> =>
                                 /\ protocol_flags'[s]["SCREENWIDTH"] = 80
                                 /\ protocol_flags'[s]["SCREENHEIGHT"] = 24)
                     ELSE protocol_flags'[s] = protocol_flags[s]]_vars

C5_Witness ==
    \E s \in Sessions :
        /\ last[s].op = "NAWS" /\ Len(last[s].bytes) = 3
        /\ protocol_flags[s]["SCREENWIDTH"] = 80
        /\ protocol_flags[s]["SCREENHEIGHT"] = 24

IsWill(w) == Len(w) = 3 /\ w[1] = 255 /\ w[2] = 251

\* C6: connectionMade writes exactly one WILL for each of the nine extension
\* options, in the order SGA, NAWS, TTYPE, 86, 87, MSSP, MSDP, GMCP, MXP, and
\* a WILL for no other option.
C6_WillOrder ==
    \A s \in Sessions :
        last[s].op = "connectionMade" =>
            SelectSeq(transport[s], IsWill) =
                << <<255, 251, 3>>, <<255, 251, 31>>, <<255, 251, 24>>,
                   <<255, 251, 86>>, <<255, 251, 87>>, <<255, 251, 70>>,
                   <<255, 251, 69>>, <<255, 251, 201>>, <<255, 251, 91>> >>

C6_Witness ==
    \E s \in Sessions :
        connected[s] /\ last[s].op = "connectionMade" /\ Len(transport[s]) = 10

Written(s, w) == \E i \in 1..Len(transport[s]) : transport[s][i] = w

\* C7 as claimed: the request connectionMade sends for the line-mode option
\* is DONT.
C7_DeclinesLinemode ==
    \A s \in Sessions :
        last[s].op = "connectionMade" =>
            /\ Written(s, <<255, 254, 34>>)
            /\ ~Written(s, <<255, 253, 34>>)

\* C7 amended: the request connectionMade sends for the line-mode option is
\* DO; it is the first thing written, whatever the session state, no DONT
\* for line mode is written by connectionMade, and the request is pending.
C7_RequestsLinemode ==
    \A s \in Sessions :
        /\ connected[s] => transport[s][1] = <<255, 253, 34>>
        /\ last[s].op = "connectionMade" =>
              /\ ~Written(s, <<255, 254, 34>>)
              /\ optstate[s][34].himNeg

C7_Witness ==
    \E s \in Sessions : connected[s] /\ optstate[s][34].himNeg /\ Len(transport[s]) >= 10

WillCount(w, option) == Len(SelectSeq(w, LAMBDA c : c = <<255, 251, option>>))

\* C8: when the peer answers DONT to a WILL request, the option stays off
\* (no flag changes, MCCP2 stays false, nothing is written), the pending flag
\* is cleared, and afterwards no WILL for the option is written except in
\* reply to a DO of the peer.
C8_RefusedStaysOff ==
    [][\A s \in Sessions : \A o \in Options :
          /\ (/\ last'[s].op = "peer" /\ last'[s].step = 254 /\ last'[s].option = o
              /\ optstate[s][o].usNeg) =>
                 /\ optstate'[s][o].us = "no"
                 /\ ~optstate'[s][o].usNeg
                 /\ protocol_flags'[s] = protocol_flags[s]
                 /\ protocol_flags'[s]["MCCP2"] = FALSE
                 /\ transport'[s] = transport[s]
                 /\ raised'[s] = ""
          /\ (/\ o \in refused[s]
              /\ ~(last'[s].op = "peer" /\ last'[s].step = 253 /\ last'[s].option = o)) =>
                 WillCount(transport'[s], o) = WillCount(transport[s], o)]_vars

C8_Witness ==
    \E s \in Sessions :
        /\ 86 \in refused[s]
        /\ optstate[s][86].us = "no" /\ ~optstate[s][86].usNeg
        /\ last[s].op = "peer" /\ last[s].step # 254

C9_Supported == {86, 87, 70, 91, 69, 201, 31, 24}

\* C9: a peer WILL for a supported option that is not active is answered DO
\* and the option becomes active, for any other option it is answered DONT;
\* a peer DO is answered WILL for a supported option and WONT otherwise.
C9_AcceptsSupported ==
    [][\A s \in Sessions : \A o \in Options :
          /\ (/\ last'[s].op = "peer" /\ last'[s].step = 251 /\ last'[s].option = o
              /\ optstate[s][o].him = "no" /\ ~optstate[s][o].himNeg) =>
                 IF o \in C9_Supported
                 THEN /\ transport'[s] = Append(transport[s], <<255, 253, o>>)
                      /\ optstate'[s][o].him = "yes"
                 ELSE transport'[s] = Append(transport[s], <<255, 254, o>>)
          /\ (/\ last'[s].op = "peer" /\ last'[s].step = 253 /\ last'[s].option = o
              /\ optstate[s][o].us = "no" /\ ~optstate[s][o].usNeg) =>
                 IF o \in C9_Supported
                 THEN /\ transport'[s] = Append(transport[s], <<255, 251, o>>)
                      /\ optstate'[s][o].us = "yes"
                 ELSE transport'[s] = Append(transport[s], <<255, 252, o>>)]_vars

\* what a compressor owned by one session writes for its messages
RECURSIVE PrivateStream(_, _)
PrivateStream(z, msgs) ==
    IF msgs = <<>> THEN <<>>
    ELSE LET r == Deflate(z, Head(msgs))
         IN  <<r.data>> \o PrivateStream(r.z, Tail(msgs))

\* C10: with outbound compression on, what a session writes for its messages
\* depends on its own messages only: it is the stream a compressor of its
\* own produces, whatever the other session sends in between.
C10_OwnStream ==
    \A s \in Sessions :
        protocol_flags[s]["MCCP2"] = TRUE =>
            SubSeq(transport[s], Len(transport[s]) - Len(sent[s]) + 1, Len(transport[s]))
                = PrivateStream(NewCompressor, sent[s])

----------------------------------------------------------------------------
(* Outbound compression switched off and on again.                         *)

NextOff ==
    \/ connectionMade("a")
    \/ enable_MCCP2("a")
    \/ \E rejects \in BOOLEAN : disable_MCCP2("a", rejects)
    \/ \E verb \in {DO, DONT}, disRaises \in BOOLEAN : PeerCommand("a", verb, MCCP2, disRaises)
    \/ \E m \in Messages : sendText("a", m)

SpecOff == Init /\ [][NextOff]_vars

EndsWithSync(w) == Len(w) >= 4 /\ SubSeq(w, Len(w) - 3, Len(w)) = <<0, 0, 255, 255>>

\* C11: switching outbound compression off while it is on, by disable_MCCP2
\* or by the peer's DONT for the active option, writes a final flush of the
\* compressor, sets the MCCP2 flag false and releases the compressor, so that
\* the next stream starts from a fresh one.
C11_OffFlushesAndReleases ==
    [][\A s \in Sessions :
          (/\ protocol_flags[s]["MCCP2"] = TRUE
           /\ \/ last'[s].op = "disable_MCCP2"
              \/ (/\ last'[s].op = "peer" /\ last'[s].step = 254 /\ last'[s].option = 86
                  /\ optstate[s][86].us = "yes" /\ optstate'[s][86].us = "no")) =>
              /\ protocol_flags'[s]["MCCP2"] = FALSE
              /\ Len(transport'[s]) = Len(transport[s]) + 1
              /\ EndsWithSync(transport'[s][Len(transport'[s])])
              /\ zlib_compress' = [window |-> <<>>, started |-> FALSE]]_vars

----------------------------------------------------------------------------
(* Messages composed with outbound compression on and off.                 *)

NextSend ==
    \/ connectionMade("a")
    \/ enable_MCCP2("a")
    \/ negotiate_TTYPE("a", pMTTSGMCP)
    \/ \E m \in Messages : sendText("a", m)
    \/ sendPrompt("a", <<104, 101, 121>>)
    \/ sendOOB("a", <<"p", "i", "n", "g">>)

SpecSend == Init /\ [][NextSend]_vars

SyncCount(w) == Cardinality({p \in 1..(Len(w) - 3) : SubSeq(w, p, p + 3) = <<0, 0, 255, 255>>})

\* what a decoder holding the window recovers from one flushed block
Inflate(window, w) ==
    LET b == IF Len(w) >= 2 /\ SubSeq(w, 1, 2) = <<120, 218>> THEN SubSeq(w, 3, Len(w)) ELSE w
        c == SubSeq(b, 1, Len(b) - 4)
    IN  IF c = <<>> THEN <<>>
        ELSE IF c[1] = 257 THEN SubSeq(window, Len(window) - c[2] + 1, Len(window) - c[2] + c[3])
        ELSE SubSeq(c, 3, Len(c))

Composed(s) == last[s].op \in {"sendText", "sendPrompt", "sendOOB"} /\ raised[s] = ""

\* C12: a message written by sendText, sendPrompt or sendOOB is, with
\* outbound compression on, one block of the stateful compressor that decodes
\* to the message and ends in exactly one synchronization flush, and with
\* compression off the message bytes as given; a prompt's IAC GA follows the
\* block uncompressed.
C12_MessageFraming ==
    [][\A s \in Sessions :
          (Composed(s)' /\ Len(transport'[s]) = Len(transport[s]) + 1) =>
              LET w == transport'[s][Len(transport'[s])]
                  msg == last'[s].bytes
                  tail == IF last'[s].op = "sendPrompt" THEN <<255, 249>> ELSE <<>>
                  body == SubSeq(w, 1, Len(w) - Len(tail))
              IN  /\ Len(w) >= Len(tail)
                  /\ SubSeq(w, Len(w) - Len(tail) + 1, Len(w)) = tail
                  /\ IF protocol_flags[s]["MCCP2"] = TRUE
                     THEN /\ EndsWithSync(body)
                          /\ SyncCount(body) = 1
                          /\ Inflate(zlib_compress.window, body) = msg
                          /\ zlib_compress'.window = zlib_compress.window \o msg
                     ELSE /\ body = msg
                          /\ zlib_compress' = zlib_compress]_vars

C12_Witness ==
    /\ protocol_flags["a"]["MCCP2"] = TRUE
    /\ last["a"].op = "sendPrompt"
    /\ Len(sent["a"]) = 2
    /\ transport["a"][Len(transport["a"])] = <<257, 3, 3, 0, 0, 255, 255, 255, 249>>

----------------------------------------------------------------------------
(* Lines of text taken from the application data.                          *)

Chunks ==
    {<<b>> : b \in {104, CR, LF}} \cup {<<b, c>> : b, c \in {104, CR, LF}} \cup {<<CR, LF, CR, LF>>}

NextLines ==
    \/ connectionMade("a")
    \/ \E data \in Chunks : applicationDataReceived("a", data)

SpecLines == Init /\ [][NextLines]_vars

Contains(w, d) == Occurrences(w, d) # {}

\* lines, each followed by the delimiter, then the rest
RECURSIVE Joined(_, _)
Joined(lines, rest) ==
    IF lines = <<>> THEN rest ELSE Head(lines) \o <<13, 10>> \o Joined(Tail(lines), rest)

----------------------------------------------------------------------------
(* Text carrying the escape byte.                                          *)

IACMessages == {<<104>>, <<255>>, <<104, 255, 105>>, <<255, 255>>}

NextIAC ==
    \E s \in Sessions :
        \/ connectionMade(s)
        \/ \E m \in IACMessages : sendText(s, m)

SpecIAC == Init /\ [][NextIAC]_vars

\* the application data among the deliveries of the parser
RECURSIVE AppData(_)
AppData(out) ==
    IF out = <<>> THEN <<>>
    ELSE (IF Head(out).kind = "app" THEN Head(out).data ELSE <<>>) \o AppData(Tail(out))

RECURSIVE Doubled(_)
Doubled(m) ==
    IF m = <<>> THEN <<>>
    ELSE (IF Head(m) = 255 THEN <<255, 255>> ELSE <<Head(m)>>) \o Doubled(Tail(m))

\* C13: what sendText writes for a message (compression off) is the message
\* with every IAC byte doubled, and the inbound parser reads the written
\* bytes back as exactly the message.
C13_IACRoundTrip ==
    [][\A s \in Sessions :
          (/\ last'[s].op = "sendText"
           /\ Len(transport'[s]) = Len(transport[s]) + 1
           /\ protocol_flags[s]["MCCP2"] = FALSE) =>
              LET w == transport'[s][Len(transport'[s])]
                  r == Telnet_dataReceived(NewParser, w, <<>>, <<>>)
              IN  /\ w = Doubled(last'[s].bytes)
                  /\ r.exc = ""
                  /\ r.t = NewParser
                  /\ AppData(r.out) = last'[s].bytes]_vars

----------------------------------------------------------------------------
(* The keepalive timer.                                                    *)

NextKeep ==
    \/ connectionMade("a")
    \/ ToggleKeepalive("a")
    \/ \E i \in 1..MaxTimers : Tick("a", i)
    \/ \E v \in BOOLEAN : SetOption("a", v)

SpecKeep == Init /\ [][NextKeep]_vars

RunningCount(k) == Cardinality({i \in 1..Len(k.calls) : k.calls[i]})

----------------------------------------------------------------------------
(* The connection lost.                                                    *)

NextClose ==
    \/ connectionMade("a")
    \/ ToggleKeepalive("a")
    \/ \E i \in 1..MaxTimers : Tick("a", i)
    \/ \E data \in {<<104>>, <<255, 250, 87>>} : dataReceived("a", data)
    \/ connectionLost("a")

SpecClose == Init /\ [][NextClose]_vars

\* C15: once the connection is lost no keepalive timer of the session runs,
\* no partial sub-negotiation payload is kept, and no step is a keepalive
\* tick or writes IAC NOP.
C15_CloseStopsSession ==
    [][\A s \in Sessions :
          closed'[s] =>
              /\ RunningCount(nop_keep_alive'[s]) = 0
              /\ telnet'[s].commands = <<>>
              /\ ~(closed[s] /\ last'[s].op = "tick" /\ last'[s] # last[s])
              /\ ~(closed[s] /\ Len(transport'[s]) > Len(transport[s]))]_vars

----------------------------------------------------------------------------
(* Outbound compression from the request to the start of the stream.       *)

NextStart ==
    \/ connectionMade("a")
    \/ \E verb \in {DO, DONT} : PeerCommand("a", verb, MCCP2, FALSE)
    \/ negotiate_TTYPE("a", pMTTSMCCP2)
    \/ \E m \in Messages : sendText("a", m)

SpecStart == Init /\ [][NextStart]_vars

StartMarker == <<255, 250, 86, 255, 240>>

Markers(s) == Len(SelectSeq(transport[s], LAMBDA w : w = StartMarker))

\* C17: the MCCP2 flag turns true only in the step that receives the peer's
\* DO MCCP2 in reply to WILL MCCP2; that step does turn it true and writes
\* the start marker IAC SB MCCP2 IAC SE once; and a message is compressed
\* only after the marker was written.
C17_MarkerThenCompression ==
    [][\A s \in Sessions :
          LET reply == /\ last'[s].op = "peer" /\ last'[s].step = 253 /\ last'[s].option = 86
                       /\ optstate[s][86].usNeg /\ optstate[s][86].us = "no"
                       /\ optstate'[s][86].us = "yes"
          IN  /\ (protocol_flags[s]["MCCP2"] = FALSE /\ protocol_flags'[s]["MCCP2"] = TRUE) => reply
              /\ reply => /\ protocol_flags'[s]["MCCP2"] = TRUE
                          /\ Markers(s) = 0
                          /\ Markers(s)' = 1
              /\ (last'[s].op = "sendText" /\ Len(transport'[s]) > Len(transport[s])
                    /\ protocol_flags[s]["MCCP2"] = TRUE) => Markers(s) = 1]_vars

----------------------------------------------------------------------------
(* Inbound compression: the peer's stream cut into reads.                  *)

Marker3 == <<IAC, SB, MCCP3, IAC, SE>>

Z(plain) == [i \in 1..Len(plain) |-> Z0 + plain[i]]

\* what a peer sends: text, the start of its compressed stream, and then
\* its text and a command through its compressor
PeerStreams ==
    {<<104, 105>> \o Marker3 \o ZHeader \o Z(<<104, 105, IAC, NOP>>),
     Marker3 \o ZHeader \o Z(<<104, IAC, IAC>>),
     <<104, IAC, NOP, 105>>}

IsPrefix(a, b) == Len(a) <= Len(b) /\ SubSeq(b, 1, Len(a)) = a

\* the next bytes of a stream that begins with the bytes read so far
Reads(wire) ==
    UNION {{SubSeq(p, Len(wire) + 1, k) :
               k \in (Len(wire) + 1)..(IF Len(p) < MaxWire THEN Len(p) ELSE MaxWire)} :
           p \in {q \in PeerStreams : IsPrefix(wire, q)}}

NextIn ==
    \/ connectionMade("a")
    \/ \E data \in Reads(received["a"].wire) : data # <<>> /\ dataReceived("a", data)

SpecIn == Init /\ [][NextIn]_vars

\* the application data of a stream whose bytes after the first start marker
\* all go through one decompressor before they are parsed
Inbound(wire) ==
    LET m == Find(wire, <<255, 250, 87, 255, 240>>)
        pre == IF m = 0 THEN wire ELSE SubSeq(wire, 1, m + 4)
        post == IF m = 0 THEN <<>> ELSE SubSeq(wire, m + 5, Len(wire))
        p1 == Telnet_dataReceived(NewParser, pre, <<>>, <<>>)
        d == decompress(NewDecompressor, post, <<>>)
        p2 == Telnet_dataReceived(p1.t, d.data, <<>>, <<>>)
    IN  AppData(p1.out) \o AppData(p2.out)

\* C18: the application data delivered is that of the peer's stream with
\* every byte after the MCCP3 start marker decompressed and no byte before
\* it, however the stream was cut into reads.
C18_DecompressedAfterMarker ==
    \A s \in Sessions : received[s].app = Inbound(received[s].wire)

----------------------------------------------------------------------------
(* The hook registry built by __init__.                                    *)

\* C19: every option of NEGOTIATE_ORDER has an entry in willwontMap, and the
\* enable and the disable hook the entry names are methods of the class, so
\* that building the registry of a session (one whose fields __init__ has
\* set) does not fail.
C19_HooksResolve ==
    \A s \in Sessions :
        ttype_step[s] >= 1 =>
            \A i \in 1..Len(NEGOTIATE_ORDER) :
                LET o == NEGOTIATE_ORDER[i]
                IN  /\ o \in willwontMap
                    /\ o \in DOMAIN willwontHooks
                    /\ willwontHooks[o][1] \in Handlers
                    /\ willwontHooks[o][2] \in Handlers

----------------------------------------------------------------------------
(* What the terminal-type handshake may write.                             *)

NextFrame ==
    \/ connectionMade("a")
    \/ \E data \in {pMUDLET20, pANSI256, pMTTS(13), pMTTSMCCP2, pMTTSNOP, pMTTSGMCP} :
           negotiate_TTYPE("a", data)
    \/ \E v \in BOOLEAN : SetOption("a", v)

SpecFrame == Init /\ [][NextFrame]_vars

ExtensionFlags == {"MCCP2", "MCCP3", "GMCP", "MSDP", "NOPKEEPALIVE"}

\* C20: a terminal-type payload leaves the flags MCCP2, MCCP3, GMCP, MSDP and
\* NOPKEEPALIVE as they were, at every step and whatever its content.
C20_ExtensionFlagsKept ==
    [][\A s \in Sessions :
          delivered'[s] # delivered[s] =>
              \A k \in ExtensionFlags : protocol_flags'[s][k] = protocol_flags[s][k]]_vars

====
